---- MODULE Spec2Model ----
(***************************************************************************)
(* A model of httpServer.ts: the promise wrapper around a net.Socket       *)
(* (soInit, soRead, soWrite), the dynamic buffer (pushBuf, popBuf), the    *)
(* request framer (getHTTPHeader, parseHTTPReq), the body reader           *)
(* (readFromReq, readerFromConnLength), the response writer                *)
(* (writeHTTPResp) and the connection and accept loops (serveClient,       *)
(* newConn, listenForClient).                                              *)
(*                                                                         *)
(* A Buffer is a sequence of bytes; a byte is a one-character string, and  *)
(* NUL is the zero byte Buffer.alloc fills with.  Offsets are 0-based as   *)
(* in the source; the sequences are 1-based.                               *)
(***************************************************************************)
EXTENDS Integers, Sequences, FiniteSets, TLC

VARIABLES
    listener,   \* listenForClient's position and the 'connection' listeners of soAccept
    sock,       \* per socket: the net.Socket (lifecycle, flowing/paused, handler sets)
    conn,       \* per socket: the TCPConn objects made by soInit, in creation order
    task,       \* per socket: the newConn/serveClient task (position, locals)
    wire,       \* per socket: bytes delivered to the server and bytes it wrote
    fr,         \* the read/pushBuf/getHTTPHeader loop fed one header block in fragments
    br,         \* a fixed-length body reader fed a body in fragments
    lim,        \* getHTTPHeader applied to buffers around maxHeaderLength
    rq,         \* one connection fed one request chosen from a set of header blocks
    pf          \* a function of the parser or of the DynBuf applied to chosen inputs

vars == <<listener, sock, conn, task, wire, fr, br, lim, rq, pf>>

----------------------------------------------------------------------------
(* Bytes                                                                   *)

NUL == "NUL"
CR == "\r"
LF == "\n"
SP == " "
CRLF == <<CR, LF>>
CRLFCRLF == <<CR, LF, CR, LF>>

Digits == <<"0", "1", "2", "3", "4", "5", "6", "7", "8", "9">>
DigitSet == {Digits[i] : i \in 1..10}
DigitVal(c) == (CHOOSE i \in 1..10 : Digits[i] = c) - 1

Min(a, b) == IF a < b THEN a ELSE b
Max(a, b) == IF a > b THEN a ELSE b

\* Buffer.alloc(n): n zero bytes.
BufferAlloc(n) == [i \in 1..n |-> NUL]

\* The clamping subarray/slice apply to an offset: negative counts from the end.
ClampIndex(i, len) == IF i < 0 THEN Max(len + i, 0) ELSE Min(i, len)

\* b.subarray(start, end)
Subarray(b, start, end) ==
    LET s == ClampIndex(start, Len(b))
        e == ClampIndex(end, Len(b))
    IN  IF e <= s THEN <<>> ELSE SubSeq(b, s + 1, e)

\* b.indexOf(pat, from): the first offset >= from where pat occurs, else -1.
IndexOf(b, pat, from) ==
    LET hits == {i \in from..(Len(b) - Len(pat)) :
                    \A k \in 1..Len(pat) : b[i + k] = pat[k]}
    IN  IF hits = {} THEN -1 ELSE CHOOSE i \in hits : \A j \in hits : i <= j

\* source.copy(target, targetStart, sourceStart, sourceEnd): the target afterwards.
BufferCopy(source, target, targetStart, sourceStart, sourceEnd) ==
    LET n == IF targetStart >= Len(target) \/ sourceStart >= sourceEnd
             THEN 0
             ELSE Min(sourceEnd - sourceStart, Len(target) - targetStart)
    IN  [i \in 1..Len(target) |->
            IF i > targetStart /\ i <= targetStart + n
            THEN source[sourceStart + (i - targetStart)]
            ELSE target[i]]

----------------------------------------------------------------------------
(* DynBuf: [data: Buffer, length: Nat]; Len(data) is the capacity.         *)

EmptyBuf == [data |-> BufferAlloc(0), length |-> 0]

\* The unconsumed bytes: buf.data.subarray(0, buf.length).
Content(buf) == Subarray(buf.data, 0, buf.length)

RECURSIVE GrowCap(_, _)
GrowCap(cap, newLen) == IF cap < newLen THEN GrowCap(cap * 2 + 1, newLen) ELSE cap

\* The grown storage: a zeroed Buffer of the new capacity, into which the old
\* bytes are copied with targetStart = newBuffer.length and
\* sourceStart = buf.data.length.
GrownData(old, cap) ==
    BufferCopy(old, BufferAlloc(cap), cap, Len(old), Len(old))

pushBuf(buf, data) ==
    LET newLen == buf.length + Len(data)
        store  == IF newLen > Len(buf.data)
                  THEN GrownData(buf.data, GrowCap(Len(buf.data), newLen))
                  ELSE buf.data
    IN  [data   |-> BufferCopy(data, store, buf.length, 0, Len(data)),
         length |-> newLen]

\* popBuf copying from the start of the storage instead of from len.
popBuf_FromStart(buf, len) ==
    [data   |-> BufferCopy(buf.data, BufferAlloc(buf.length - len), 0, 0, buf.length),
     length |-> buf.length - len]

popBuf(buf, len) ==
    [data   |-> BufferCopy(buf.data, BufferAlloc(buf.length - len), 0, len, buf.length),
     length |-> buf.length - len]

----------------------------------------------------------------------------
(* Strings.  A JS string is a sequence of characters; an ASCII byte decodes *)
(* to the same character, a byte that is not valid UTF-8 (HI) decodes to   *)
(* U+FFFD, which encodes to three bytes.                                   *)

HI == "0x80"
REPL == "U+FFFD"

DecodeByte(b) == IF b = HI THEN <<REPL>> ELSE <<b>>
EncodeChar(c) == IF c = REPL THEN <<"0xEF", "0xBF", "0xBD">> ELSE <<c>>

\* buf.toString(), byte by byte (by halves, to keep the evaluation shallow)
RECURSIVE BufToString(_)
BufToString(b) ==
    IF b = <<>> THEN <<>>
    ELSE IF Len(b) = 1 THEN DecodeByte(b[1])
    ELSE LET m == Len(b) \div 2
         IN  BufToString(SubSeq(b, 1, m)) \o BufToString(SubSeq(b, m + 1, Len(b)))

\* Buffer.from(str), character by character
RECURSIVE BufferFrom(_)
BufferFrom(str) ==
    IF str = <<>> THEN <<>>
    ELSE IF Len(str) = 1 THEN EncodeChar(str[1])
    ELSE LET m == Len(str) \div 2
         IN  BufferFrom(SubSeq(str, 1, m)) \o BufferFrom(SubSeq(str, m + 1, Len(str)))

Whitespace == {SP, "\t", CR, LF}

RECURSIVE TrimStart(_)
TrimStart(s) == IF s # <<>> /\ Head(s) \in Whitespace THEN TrimStart(Tail(s)) ELSE s

RECURSIVE TrimEnd(_)
TrimEnd(s) ==
    IF s # <<>> /\ s[Len(s)] \in Whitespace THEN TrimEnd(SubSeq(s, 1, Len(s) - 1)) ELSE s

\* buf.toString('latin1'): every byte is one character.
Latin1ToString(b) == [i \in 1..Len(b) |-> b[i]]

\* str.trim()
Trim(s) == TrimEnd(TrimStart(s))

UpperCase == <<"A", "B", "C", "D", "E", "F", "G", "H", "I", "J", "K", "L", "M",
               "N", "O", "P", "Q", "R", "S", "T", "U", "V", "W", "X", "Y", "Z">>
LowerCase == <<"a", "b", "c", "d", "e", "f", "g", "h", "i", "j", "k", "l", "m",
               "n", "o", "p", "q", "r", "s", "t", "u", "v", "w", "x", "y", "z">>

LowerChar(c) ==
    IF \E i \in 1..26 : UpperCase[i] = c
    THEN LowerCase[CHOOSE i \in 1..26 : UpperCase[i] = c]
    ELSE c

\* str.toLocaleLowerCase()
ToLower(s) == [i \in 1..Len(s) |-> LowerChar(s[i])]

RECURSIVE DecimalValue(_)
DecimalValue(s) ==
    IF s = <<>> THEN 0 ELSE DecimalValue(SubSeq(s, 1, Len(s) - 1)) * 10 + DigitVal(s[Len(s)])

RECURSIVE TrimZeros(_)
TrimZeros(s) == IF s # <<>> /\ s[Len(s)] = "0" THEN TrimZeros(SubSeq(s, 1, Len(s) - 1)) ELSE s

\* Number(str) on the literals this model feeds it: surrounding whitespace is
\* dropped, the empty string is 0, an optionally signed decimal literal
\* (digits, with or without a point and fraction digits) is its value, anything
\* else is NaN.  The value is (neg ? -1 : 1) * (int + 0.frac), frac without
\* trailing zeros.
NumberOf(str) ==
    LET t     == Trim(str)
        neg   == t # <<>> /\ Head(t) = "-"
        body  == IF t # <<>> /\ Head(t) \in {"-", "+"} THEN Tail(t) ELSE t
        point == IndexOf(body, <<".">>, 0)
        ipart == IF point = -1 THEN body ELSE SubSeq(body, 1, point)
        fpart == IF point = -1 THEN <<>> ELSE SubSeq(body, point + 2, Len(body))
    IN  IF t = <<>> THEN [nan |-> FALSE, neg |-> FALSE, int |-> 0, frac |-> <<>>]
        ELSE IF /\ Len(ipart) + Len(fpart) > 0
                /\ \A i \in 1..Len(ipart) : ipart[i] \in DigitSet
                /\ \A i \in 1..Len(fpart) : fpart[i] \in DigitSet
        THEN [nan |-> FALSE, neg |-> neg, int |-> DecimalValue(ipart), frac |-> TrimZeros(fpart)]
        ELSE [nan |-> TRUE, neg |-> FALSE, int |-> 0, frac |-> <<>>]

RECURSIVE DecimalString(_)
DecimalString(n) ==
    IF n < 10 THEN <<Digits[n + 1]>> ELSE DecimalString(n \div 10) \o <<Digits[(n % 10) + 1]>>

\* `${n}` for a number
NumberToString(n) == IF n < 0 THEN <<"-">> \o DecimalString(0 - n) ELSE DecimalString(n)

----------------------------------------------------------------------------
(* Errors.  HTTPError carries a status code; every other exception (the    *)
(* plain Error of the body reader, a transport error) carries none.        *)

HTTPError(code, message) == [name |-> "HTTPError", code |-> code, message |-> message]
PlainError(message) == [name |-> "Error", code |-> 0, message |-> message]
TransportError == [name |-> "TransportError", code |-> 0, message |-> <<>>]
NoError == [name |-> "none", code |-> 0, message |-> <<>>]

\* Results of the functions that return or throw.
Return(v) == [ok |-> TRUE, val |-> v, exc |-> NoError]
Throw(e) == [ok |-> FALSE, val |-> <<>>, exc |-> e]

MsgHeaderTooLarge == <<"h", "e", "a", "d", "e", "r", SP, "i", "s", SP, "t", "o", "o", SP, "l", "a", "r", "g", "e">>
MsgBadField == <<"b", "a", "d", SP, "f", "i", "e", "l", "d">>
MsgBadRequestLine == <<"b", "a", "d", SP, "r", "e", "q", "u", "e", "s", "t", SP, "l", "i", "n", "e", ".">>
MsgBadContentLength == <<"b", "a", "d", SP, "C", "o", "n", "t", "e", "n", "t", "-", "L", "e", "n", "g", "t", "h", ".">>
MsgBodyNotAllowed == <<"H", "T", "T", "P", SP, "b", "o", "d", "y", SP, "n", "o", "t", SP, "a", "l", "l", "o", "w", "e", "d", ".">>
MsgTodoChunked == <<"T", "O", "D", "O", ":", SP, "T", "r", "a", "n", "s", "f", "e", "r", "-", "E", "n", "c", "o", "d", "i", "n", "g">>
MsgTodoRest == <<"T", "O", "D", "O", ":", SP, "r", "e", "a", "d", "i", "n", "g", SP, "r", "e", "s", "t", SP, "o", "f", SP, "c", "o", "n", "n", "e", "c", "t", "i", "o", "n">>
MsgUnexpectedEOF == <<"U", "n", "e", "x", "p", "e", "c", "t", "e", "d", SP, "E", "O", "F", ".">>
MsgBodyEOF == <<"U", "n", "e", "x", "p", "e", "c", "t", "e", "d", SP, "E", "O", "F", SP, "f", "r", "o", "m", SP, "H", "T", "T", "P", SP, "b", "o", "d", "y", ".">>

----------------------------------------------------------------------------
(* Request framer                                                          *)

maxHeaderLength == 1024 * 8

RECURSIVE SplitFrom(_, _)
SplitFrom(data, start) ==
    LET index == IndexOf(data, CRLF, start)
    IN  IF index = -1 THEN <<>>
        ELSE <<Subarray(data, start, index)>> \o SplitFrom(data, index + Len(CRLF))

splitLines(data) == SplitFrom(data, 0)

\* version.match("^HTTP\/[0-9]\.[0-9]$"): the pattern is a string literal, in
\* which \/ is / and \. is . , so the separator is the regular expression's
\* any-character dot (everything but a line terminator).
VersionMatches(version) ==
    /\ Len(version) = 8
    /\ SubSeq(version, 1, 5) = <<"H", "T", "T", "P", "/">>
    /\ version[6] \in DigitSet
    /\ version[7] \notin {CR, LF}
    /\ version[8] \in DigitSet

parseRequestLine(data) ==
    LET index1  == IndexOf(data, <<SP>>, 0)
        method  == BufToString(Subarray(data, 0, index1))
        start1  == index1 + 1
        index2  == IndexOf(data, <<SP>>, start1)
        uri     == Subarray(data, start1, index2)
        start2  == index2 + 1
        version == BufToString(Subarray(data, start2, Len(data)))
    IN  IF ~VersionMatches(version)
        THEN Throw(HTTPError(400, MsgBadRequestLine))
        ELSE Return([method |-> method, uri |-> uri, version |-> version])

checkHeaderLine(data) ==
    LET colon     == IndexOf(data, <<":">>, 0)
        firstOWS  == IndexOf(data, <<SP>>, 0)
        secondOWS == IndexOf(data, <<SP>>, firstOWS + 1)
    IN  IF colon = -1 THEN FALSE
        ELSE IF firstOWS = -1 THEN TRUE
        ELSE IF firstOWS < colon THEN FALSE
        ELSE IF secondOWS = -1 THEN TRUE
        ELSE IF firstOWS + 1 = secondOWS THEN FALSE
        ELSE TRUE

parseHTTPReq(data) ==
    LET lines   == splitLines(data)
        first   == parseRequestLine(lines[1])
        fields  == SubSeq(lines, 2, Len(lines) - 1)
        headers == [i \in 1..Len(fields) |-> BufferFrom(Trim(BufToString(fields[i])))]
    IN  IF ~first.ok THEN first
        ELSE IF \E i \in 1..Len(fields) : ~checkHeaderLine(fields[i])
        THEN Throw(HTTPError(400, MsgBadField))
        ELSE Return([method  |-> first.val.method,
                     uri     |-> first.val.uri,
                     version |-> first.val.version,
                     headers |-> headers])

\* getHTTPHeader with the bound compared by > instead of >=.
getHTTPHeader_StrictBound(buf) ==
    LET index  == IndexOf(Content(buf), CRLFCRLF, 0)
        parsed == parseHTTPReq(Subarray(buf.data, 0, index + 4))
    IN  IF buf.length = 0 THEN [kind |-> "none", msg |-> <<>>, buf |-> buf, exc |-> NoError]
        ELSE IF index < 0
        THEN IF buf.length > maxHeaderLength
             THEN [kind |-> "throw", msg |-> <<>>, buf |-> buf,
                   exc |-> HTTPError(413, MsgHeaderTooLarge)]
             ELSE [kind |-> "none", msg |-> <<>>, buf |-> buf, exc |-> NoError]
        ELSE IF ~parsed.ok
        THEN [kind |-> "throw", msg |-> <<>>, buf |-> buf, exc |-> parsed.exc]
        ELSE [kind |-> "msg", msg |-> parsed.val, buf |-> popBuf(buf, index + 4),
              exc |-> NoError]

\* getHTTPHeader popping the header block without its last CRLF.
getHTTPHeader_ShortPop(buf) ==
    LET index  == IndexOf(Content(buf), CRLFCRLF, 0)
        parsed == parseHTTPReq(Subarray(buf.data, 0, index + 4))
    IN  IF buf.length = 0 THEN [kind |-> "none", msg |-> <<>>, buf |-> buf, exc |-> NoError]
        ELSE IF index < 0
        THEN IF buf.length >= maxHeaderLength
             THEN [kind |-> "throw", msg |-> <<>>, buf |-> buf,
                   exc |-> HTTPError(413, MsgHeaderTooLarge)]
             ELSE [kind |-> "none", msg |-> <<>>, buf |-> buf, exc |-> NoError]
        ELSE IF ~parsed.ok
        THEN [kind |-> "throw", msg |-> <<>>, buf |-> buf, exc |-> parsed.exc]
        ELSE [kind |-> "msg", msg |-> parsed.val, buf |-> popBuf(buf, index + 2),
              exc |-> NoError]

\* getHTTPHeader(buf): "none" for null (more data is needed), "msg" with the
\* parsed request and the buffer after popBuf, or "throw".
getHTTPHeader(buf) ==
    LET index  == IndexOf(Content(buf), CRLFCRLF, 0)
        parsed == parseHTTPReq(Subarray(buf.data, 0, index + 4))
    IN  IF buf.length = 0 THEN [kind |-> "none", msg |-> <<>>, buf |-> buf, exc |-> NoError]
        ELSE IF index < 0
        THEN IF buf.length >= maxHeaderLength
             THEN [kind |-> "throw", msg |-> <<>>, buf |-> buf,
                   exc |-> HTTPError(413, MsgHeaderTooLarge)]
             ELSE [kind |-> "none", msg |-> <<>>, buf |-> buf, exc |-> NoError]
        ELSE IF ~parsed.ok
        THEN [kind |-> "throw", msg |-> <<>>, buf |-> buf, exc |-> parsed.exc]
        ELSE [kind |-> "msg", msg |-> parsed.val, buf |-> popBuf(buf, index + 4),
              exc |-> NoError]

----------------------------------------------------------------------------
(* Body reader and response                                                *)

StrContentLength == <<"C", "o", "n", "t", "e", "n", "t", "-", "L", "e", "n", "g", "t", "h">>
StrTransferEncoding == <<"T", "r", "a", "n", "s", "f", "e", "r", "-", "E", "n", "c", "o", "d", "i", "n", "g">>
StrChunked == <<"c", "h", "u", "n", "k", "e", "d">>
StrGET == <<"G", "E", "T">>
StrHEAD == <<"H", "E", "A", "D">>
StrEcho == <<"/", "e", "c", "h", "o">>
StrHTTP10 == <<"H", "T", "T", "P", "/", "1", ".", "0">>
StrErrVersion == <<"1", ".", "0">>
StrHelloWorld == <<"H", "e", "l", "l", "o", SP, "W", "o", "r", "l", "d", "!", LF>>
StrServerHeader == <<"S", "e", "r", "v", "e", "r", ":", SP, "h", "t", "t", "p", "_", "t", "e", "s", "t", "_", "s", "e", "r", "v", "e", "r">>
StrContentLengthColon == <<"C", "o", "n", "t", "e", "n", "t", "-", "L", "e", "n", "g", "t", "h", ":", SP>>

\* The value fieldGet takes from one matching header line.
FieldValue(key) ==
    Subarray(key,
             IndexOf(key, <<":">>, 0) + (IF IndexOf(key, <<SP>>, 0) = -1 THEN 1 ELSE 2),
             Len(key))

\* The forEach of fieldGet: every line that contains the field name assigns value.
RECURSIVE FieldScan(_, _, _)
FieldScan(headers, field, value) ==
    IF headers = <<>> THEN value
    ELSE LET key == Head(headers)
         IN  FieldScan(Tail(headers), field,
                       IF IndexOf(ToLower(BufToString(key)), ToLower(field), 0) # -1
                       THEN FieldValue(key)
                       ELSE value)

\* fieldGet(headers, field): found is FALSE for null.
fieldGet(headers, field) ==
    LET value == FieldScan(headers, field, BufferAlloc(0))
    IN  [found |-> Len(value) # 0, value |-> value]

\* A BodyReader.  kind "conn" is readerFromConnLength (payloadLength is the
\* closure's remaining-byte counter), kind "mem" is readerFromMemory.  frac
\* holds the fraction digits of a declared length that is no whole number;
\* read() is modelled for whole lengths only, and no specification reads from
\* a reader whose length has a fraction.
readerFromConnLength(payloadLength) ==
    [kind |-> "conn", length |-> payloadLength, payloadLength |-> payloadLength,
     data |-> <<>>, done |-> FALSE, frac |-> <<>>]

readerFromMemory(data) ==
    [kind |-> "mem", length |-> Len(data), payloadLength |-> 0,
     data |-> data, done |-> FALSE, frac |-> <<>>]

NoReader == [kind |-> "none", length |-> 0, payloadLength |-> 0, data |-> <<>>, done |-> FALSE, frac |-> <<>>]

readFromReq(req) ==
    LET contentLength == fieldGet(req.headers, StrContentLength)
        parsedLength  == NumberOf(Latin1ToString(contentLength.value))
        hasLength     == contentLength.found
        \* payloadLength > 0 and payloadLength >= 0 for the parsed value (-1 when absent)
        positive      == hasLength /\ ~parsedLength.neg
                            /\ (parsedLength.int > 0 \/ parsedLength.frac # <<>>)
        nonNegative   == hasLength
                            /\ (~parsedLength.neg
                                  \/ (parsedLength.int = 0 /\ parsedLength.frac = <<>>))
        bodyAllowed   == ~(req.method = StrGET \/ req.method = StrHEAD)
        chunked       == fieldGet(req.headers, StrTransferEncoding)
        isChunked     == chunked.found /\ chunked.value = StrChunked
    IN  IF hasLength /\ parsedLength.nan
        THEN Throw(HTTPError(400, MsgBadContentLength))
        ELSE IF ~bodyAllowed /\ (positive \/ isChunked)
        THEN Throw(HTTPError(400, MsgBodyNotAllowed))
        ELSE IF ~bodyAllowed
        THEN Return(readerFromConnLength(0))
        ELSE IF nonNegative
        THEN Return([readerFromConnLength(parsedLength.int) EXCEPT !.frac = parsedLength.frac])
        ELSE IF isChunked
        THEN Throw(HTTPError(501, MsgTodoChunked))
        ELSE Throw(HTTPError(501, MsgTodoRest))

\* read() of a BodyReader, up to its await: TRUE when it calls soRead.
ReadNeedsConn(reader, buf) ==
    reader.kind = "conn" /\ reader.payloadLength # 0 /\ buf.length = 0

\* ReadConsume without Math.min: everything buffered is taken.
ReadConsume_NoCap(reader, buf) ==
    LET consume == buf.length
    IN  [data   |-> Subarray(buf.data, 0, consume),
         reader |-> [reader EXCEPT !.payloadLength = reader.payloadLength - consume],
         buf    |-> popBuf(buf, consume)]

\* read() of readerFromConnLength from `const consume` on: the chunk returned,
\* the reader and the buffer afterwards.
ReadConsume(reader, buf) ==
    LET consume == Min(buf.length, reader.payloadLength)
    IN  [data   |-> Subarray(buf.data, 0, consume),
         reader |-> [reader EXCEPT !.payloadLength = reader.payloadLength - consume],
         buf    |-> popBuf(buf, consume)]

\* read() when it does not await: readerFromMemory, or readerFromConnLength with
\* payloadLength 0 or bytes in the buffer.
ReadNow(reader, buf) ==
    IF reader.kind = "mem"
    THEN [data   |-> IF reader.done THEN <<>> ELSE reader.data,
          reader |-> [reader EXCEPT !.done = TRUE],
          buf    |-> buf]
    ELSE IF reader.payloadLength = 0
    THEN [data |-> <<>>, reader |-> reader, buf |-> buf]
    ELSE ReadConsume(reader, buf)

\* handleReq: the response body is the request's reader for /echo, else the
\* default payload.  bodyIsReq says which of the two the response holds.
handleReq(req, body) ==
    LET echo == Latin1ToString(req.uri) = StrEcho
    IN  [code      |-> 200,
         headers   |-> <<StrServerHeader>>,
         bodyIsReq |-> echo,
         body      |-> IF echo THEN body ELSE readerFromMemory(StrHelloWorld)]

\* The response of newConn's catch block.
ErrorResp(exc) ==
    [code      |-> exc.code,
     headers   |-> <<>>,
     bodyIsReq |-> FALSE,
     body      |-> readerFromMemory(BufferFrom(exc.message \o <<LF>>))]

\* writeHTTPResp up to its first await: the Content-Length header is pushed.
WithContentLength(resp) ==
    [resp EXCEPT !.headers =
        Append(resp.headers,
               StrContentLengthColon \o NumberToString(resp.body.length)
               \o (IF resp.body.frac = <<>> THEN <<>> ELSE <<".">> \o resp.body.frac))]

RECURSIVE HeaderLines(_)
HeaderLines(headers) ==
    IF headers = <<>> THEN <<>>
    ELSE BufToString(Head(headers)) \o CRLF \o HeaderLines(Tail(headers))

encodeHTTPResp(resp, version) ==
    BufferFrom(version \o <<SP>> \o NumberToString(resp.code) \o CRLF
               \o HeaderLines(resp.headers) \o CRLF)

----------------------------------------------------------------------------
(* The server: sockets, TCPConn objects, connection tasks, the accept loop *)

\* The sockets, numbered in the order in which their connections are made.
Sockets == 1..2

\* How many 'data' events the peer of one connection delivers.
MaxDeliveries == 3

ReqGet11 == <<"G", "E", "T", SP, "/", SP, "H", "T", "T", "P", "/", "1", ".", "1", CR, LF,
              "H", "o", "s", "t", ":", SP, "x", CR, LF, CR, LF>>
ReqGet10 == <<"G", "E", "T", SP, "/", SP, "H", "T", "T", "P", "/", "1", ".", "0", CR, LF, CR, LF>>
\* POST /echo with Content-Length 3, up to and including the first body byte
ReqEchoA == <<"P", "O", "S", "T", SP, "/", "e", "c", "h", "o", SP,
              "H", "T", "T", "P", "/", "1", ".", "1", CR, LF,
              "C", "o", "n", "t", "e", "n", "t", "-", "L", "e", "n", "g", "t", "h", ":", SP, "3",
              CR, LF, CR, LF, "a">>
\* POST / (the default route ignores the body) with Content-Length 3, up to and
\* including the first body byte
ReqPostA == <<"P", "O", "S", "T", SP, "/", SP,
              "H", "T", "T", "P", "/", "1", ".", "1", CR, LF,
              "C", "o", "n", "t", "e", "n", "t", "-", "L", "e", "n", "g", "t", "h", ":", SP, "3",
              CR, LF, CR, LF, "a">>
BodyBc == <<"b", "c">>
\* GET / HTTP/1.1 with no header field, in two deliveries
FragA == <<"G", "E", "T", SP, "/", SP, "H", "T">>
FragB == <<"T", "P", "/", "1", ".", "1", CR, LF, CR, LF>>

\* GET / HTTP/1.1 and, pipelined behind it, a block that is no request
ReqGetJunk == ReqGet11 \o FragB

\* The last two body bytes and, behind them, the next request
BodyBcGet10 == BodyBc \o ReqGet10

\* What one 'data' event may carry.
Deliveries ==
    {ReqGet11, ReqGet10, ReqEchoA, ReqPostA, BodyBc, FragA, FragB, ReqGetJunk, BodyBcGet10}

NoMsg == [method |-> <<>>, uri |-> <<>>, version |-> <<>>, headers |-> <<>>]
NoResp == [code |-> 0, headers |-> <<>>, bodyIsReq |-> FALSE, body |-> NoReader]

\* soInit's conn object; reader is TRUE while the promise callbacks are stored.
NewTCPConn == [err |-> FALSE, ended |-> FALSE, reader |-> FALSE]

\* The socket of a connection not yet made.  net.createServer({pauseOnConnect:
\* true}) hands every socket over paused.
IdleSocket ==
    [state |-> "idle", flowing |-> FALSE, ended |-> FALSE, errored |-> FALSE, handlers |-> 0]

\* The newConn task of a socket before the accept loop starts it.
IdleTask ==
    [pc |-> "idle", c |-> 0, buf |-> EmptyBuf, msg |-> NoMsg, reqBody |-> NoReader,
     res |-> NoResp, exc |-> NoError, errPath |-> FALSE, ctx |-> "none", data |-> <<>>]

\* History kept for the properties: bytes delivered, buffers handed to
\* socket.write, handler responses written to the end and the version of the
\* last request so answered, error responses started, a failed console.assert
\* of soRead, a 'data' event that found conn.reader null, a soRead or soWrite
\* that went on to the socket after the socket had reported an error.
IdleWire ==
    [inp |-> <<>>, n |-> 0, out |-> <<>>, nResp |-> 0, lastVersion |-> <<>>,
     nErrResp |-> 0, readAssert |-> FALSE, dataNoReader |-> FALSE, ioAfterErr |-> FALSE]

InitServer ==
    /\ listener = [pc |-> "listen", listening |-> FALSE, onConnection |-> 0,
                   cur |-> 0, crashed |-> FALSE]
    /\ sock = [s \in Sockets |-> IdleSocket]
    /\ conn = [s \in Sockets |-> <<>>]
    /\ task = [s \in Sockets |-> IdleTask]
    /\ wire = [s \in Sockets |-> IdleWire]

srvVars == <<listener, sock, conn, task, wire>>

\* One connection's state, as the step functions below take and return it.
St(s) == [t |-> task[s], cs |-> conn[s], so |-> sock[s], w |-> wire[s]]

Set(s, st) ==
    /\ task' = [task EXCEPT ![s] = st.t]
    /\ conn' = [conn EXCEPT ![s] = st.cs]
    /\ sock' = [sock EXCEPT ![s] = st.so]
    /\ wire' = [wire EXCEPT ![s] = st.w]

\* An exception leaves serveClient for newConn's catch block; inside the catch
\* block's own try it is ignored and the finally block follows.
Raise(t, exc) ==
    IF t.errPath THEN [t EXCEPT !.pc = "finally"]
    ELSE [t EXCEPT !.pc = "catch", !.exc = exc]

\* soInit(socket): a new TCPConn and one more set of 'data'/'end'/'error'
\* handlers on the socket.
soInit(st) ==
    [st EXCEPT !.cs = Append(st.cs, NewTCPConn),
               !.so.handlers = st.so.handlers + 1,
               !.t.c = Len(st.cs) + 1]

\* await soRead(conn), called for ctx ("hdr": serveClient, "resp": the response
\* body, "drain": the drain loop).
soRead(st, ctx) ==
    LET cn  == st.cs[st.t.c]
        st1 == [st EXCEPT !.w.readAssert = st.w.readAssert \/ cn.reader, !.t.ctx = ctx]
    IN  IF cn.err THEN [st1 EXCEPT !.t = Raise(st1.t, TransportError)]
        ELSE IF cn.ended THEN [st1 EXCEPT !.t.pc = "gotData", !.t.data = <<>>]
        ELSE [st1 EXCEPT !.cs[st.t.c].reader = TRUE,
                         !.so.flowing = TRUE,
                         !.w.ioAfterErr = st.w.ioAfterErr \/ st.so.errored,
                         !.t.pc = "awaitRead"]

\* await soWrite(conn, data)
soWrite(st, data) ==
    IF st.cs[st.t.c].err THEN [st EXCEPT !.t = Raise(st.t, TransportError)]
    ELSE [st EXCEPT !.w.out = Append(st.w.out, data),
                    !.w.ioAfterErr = st.w.ioAfterErr \/ st.so.errored,
                    !.t.pc = "awaitWrite"]

\* serveClient from the top of its loop: getHTTPHeader, then soRead when more
\* data is needed.
StepLoop(st) ==
    LET r == getHTTPHeader(st.t.buf)
    IN  IF r.kind = "throw" THEN [st EXCEPT !.t = Raise(st.t, r.exc)]
        ELSE IF r.kind = "msg"
        THEN [st EXCEPT !.t.buf = r.buf, !.t.msg = r.msg, !.t.pc = "dispatch"]
        ELSE soRead(st, "hdr")

\* StepGotHeaderData returning on every end-of-stream, whatever the buffer holds.
StepGotHeaderData_AnyEOFReturns(st) ==
    LET data == st.t.data
        buf  == pushBuf(st.t.buf, data)
        st1  == [st EXCEPT !.t.buf = buf, !.t.data = <<>>]
    IN  IF Len(data) = 0 THEN [st1 EXCEPT !.t.pc = "finally"]
        ELSE [st1 EXCEPT !.t.pc = "loop"]

\* serveClient after `await soRead(conn)`.
StepGotHeaderData(st) ==
    LET data == st.t.data
        buf  == pushBuf(st.t.buf, data)
        st1  == [st EXCEPT !.t.buf = buf, !.t.data = <<>>]
    IN  IF Len(data) = 0 /\ buf.length = 0 THEN [st1 EXCEPT !.t.pc = "finally"]
        ELSE IF Len(data) = 0
        THEN [st1 EXCEPT !.t = Raise(st1.t, HTTPError(400, MsgUnexpectedEOF))]
        ELSE [st1 EXCEPT !.t.pc = "loop"]

\* The reader a response reads: the request's own reader for /echo.
RespReader(t) == IF t.res.bodyIsReq THEN t.reqBody ELSE t.res.body

WithRespReader(t, reader) ==
    IF t.res.bodyIsReq THEN [t EXCEPT !.reqBody = reader] ELSE [t EXCEPT !.res.body = reader]

\* writeHTTPResp after `await resp.body.read()` returned data.
AfterRespRead(st, data) ==
    IF Len(data) = 0 THEN [st EXCEPT !.t.pc = "written"] ELSE soWrite(st, data)

\* AfterDrainRead leaving the drain loop after one read, whatever it returned.
AfterDrainRead_OneRead(st, data) == [st EXCEPT !.t.pc = "loop"]

\* The drain loop of serveClient after `await reqBody.read()` returned data.
AfterDrainRead(st, data) ==
    IF Len(data) > 0 THEN [st EXCEPT !.t.pc = "drain"] ELSE [st EXCEPT !.t.pc = "loop"]

\* readFromReq, handleReq and writeHTTPResp up to the write of the header.
StepDispatch(st) ==
    LET rb  == readFromReq(st.t.msg)
        res == WithContentLength(handleReq(st.t.msg, rb.val))
    IN  IF ~rb.ok THEN [st EXCEPT !.t = Raise(st.t, rb.exc)]
        ELSE soWrite([st EXCEPT !.t.reqBody = rb.val, !.t.res = res],
                     encodeHTTPResp(res, st.t.msg.version))

\* writeHTTPResp's body loop: resp.body.read().
StepRespBody(st) ==
    LET reader == RespReader(st.t)
        r      == ReadNow(reader, st.t.buf)
    IN  IF ReadNeedsConn(reader, st.t.buf) THEN soRead(st, "resp")
        ELSE AfterRespRead([st EXCEPT !.t = WithRespReader([st.t EXCEPT !.buf = r.buf], r.reader)],
                           r.data)

\* StepWritten with the version test of the file's earlier serveClient
\* (msg.version === "1.0"), which no parsed version satisfies.
StepWritten_BareVersion(st) ==
    IF st.t.errPath THEN [st EXCEPT !.t.pc = "finally"]
    ELSE LET st1 == [st EXCEPT !.w.nResp = st.w.nResp + 1,
                               !.w.lastVersion = st.t.msg.version]
         IN  IF st.t.msg.version = StrErrVersion
             THEN [st1 EXCEPT !.t.pc = "finally"]
             ELSE [st1 EXCEPT !.t.pc = "drain"]

\* serveClient after writeHTTPResp returned, or the catch block after its
\* writeHTTPResp returned.
StepWritten(st) ==
    IF st.t.errPath THEN [st EXCEPT !.t.pc = "finally"]
    ELSE LET st1 == [st EXCEPT !.w.nResp = st.w.nResp + 1,
                               !.w.lastVersion = st.t.msg.version]
         IN  IF st.t.msg.version = StrHTTP10
             THEN [st1 EXCEPT !.t.pc = "finally"]
             ELSE [st1 EXCEPT !.t.pc = "drain"]

\* while ((await reqBody.read()).length > 0) {}
StepDrain(st) ==
    LET r == ReadNow(st.t.reqBody, st.t.buf)
    IN  IF ReadNeedsConn(st.t.reqBody, st.t.buf) THEN soRead(st, "drain")
        ELSE AfterDrainRead([st EXCEPT !.t.buf = r.buf, !.t.reqBody = r.reader], r.data)

\* StepGotBodyData raising the protocol error HTTPError(400) on end-of-stream.
StepGotBodyData_ProtocolError(st) ==
    LET data == st.t.data
        buf  == pushBuf(st.t.buf, data)
        r    == ReadConsume(st.t.reqBody, buf)
        st1  == [st EXCEPT !.t.buf = r.buf, !.t.reqBody = r.reader, !.t.data = <<>>]
    IN  IF Len(data) = 0
        THEN [st EXCEPT !.t = Raise([st.t EXCEPT !.buf = buf, !.data = <<>>],
                                    HTTPError(400, MsgBodyEOF))]
        ELSE IF st.t.ctx = "resp" THEN AfterRespRead(st1, r.data)
        ELSE AfterDrainRead(st1, r.data)

\* read() of readerFromConnLength after its `await soRead(conn)`.
StepGotBodyData(st) ==
    LET data == st.t.data
        buf  == pushBuf(st.t.buf, data)
        r    == ReadConsume(st.t.reqBody, buf)
        st1  == [st EXCEPT !.t.buf = r.buf, !.t.reqBody = r.reader, !.t.data = <<>>]
    IN  IF Len(data) = 0
        THEN [st EXCEPT !.t = Raise([st.t EXCEPT !.buf = buf, !.data = <<>>],
                                    PlainError(MsgBodyEOF))]
        ELSE IF st.t.ctx = "resp" THEN AfterRespRead(st1, r.data)
        ELSE AfterDrainRead(st1, r.data)

\* newConn's catch block: an HTTPError is answered through a TCPConn made by a
\* second soInit on the same socket.
StepCatch(st) ==
    LET resp == WithContentLength(ErrorResp(st.t.exc))
        st1  == soInit([st EXCEPT !.t.errPath = TRUE, !.t.res = resp,
                                  !.w.nErrResp = st.w.nErrResp + 1])
    IN  IF st.t.exc.name = "HTTPError"
        THEN soWrite(st1, encodeHTTPResp(resp, StrErrVersion))
        ELSE [st EXCEPT !.t.pc = "finally"]

\* newConn's finally block: socket.destroy().
StepFinally(st) == [st EXCEPT !.so.state = "destroyed", !.t.pc = "done"]

\* newConn up to serveClient's loop: soInit and the empty DynBuf.
StepStart(st) ==
    LET st1 == soInit(st) IN [st1 EXCEPT !.t.buf = EmptyBuf, !.t.pc = "loop"]

----------------------------------------------------------------------------
(* Scheduling.  A task runs until it awaits the socket; promise            *)
(* continuations run before the next socket or server event is handled.    *)

Blocked(s) == task[s].pc \in {"idle", "awaitRead", "awaitWrite", "done"}

ListenerBlocked ==
    \/ listener.pc \in {"accepting", "stopped"}
    \/ listener.pc = "serving" /\ task[listener.cur].pc # "done"

Quiescent == ~listener.crashed /\ ListenerBlocked /\ \A s \in Sockets : Blocked(s)

Run(s, pc, st) ==
    /\ ~listener.crashed
    /\ task[s].pc = pc
    /\ Set(s, st)
    /\ UNCHANGED <<listener, fr, br, lim, rq, pf>>

TaskStart(s) == Run(s, "start", StepStart(St(s)))
TaskLoop(s) == Run(s, "loop", StepLoop(St(s)))
TaskGotHeaderData(s) ==
    task[s].ctx = "hdr" /\ Run(s, "gotData", StepGotHeaderData(St(s)))
TaskGotBodyData(s) ==
    task[s].ctx # "hdr" /\ Run(s, "gotData", StepGotBodyData(St(s)))
TaskDispatch(s) == Run(s, "dispatch", StepDispatch(St(s)))
TaskRespBody(s) == Run(s, "respBody", StepRespBody(St(s)))
TaskWritten(s) == Run(s, "written", StepWritten(St(s)))
TaskDrain(s) == Run(s, "drain", StepDrain(St(s)))
TaskCatch(s) == Run(s, "catch", StepCatch(St(s)))
TaskFinally(s) == Run(s, "finally", StepFinally(St(s)))

----------------------------------------------------------------------------
(* Socket and server events                                                *)

\* The promise of the task's pending soRead is settled.
Resolve(t, data) == [t EXCEPT !.pc = "gotData", !.data = data]

Waiting(st) == st.t.pc = "awaitRead" /\ st.cs[st.t.c].reader

\* OnData without `conn.reader = null`.
OnData_KeepsReader(st, data) ==
    LET st1 == [st EXCEPT !.so.flowing = FALSE,
                          !.w.inp = st.w.inp \o data,
                          !.w.n = st.w.n + 1]
    IN  IF \E i \in 1..Len(st.cs) : ~st.cs[i].reader
        THEN [st1 EXCEPT !.w.dataNoReader = TRUE]
        ELSE [st1 EXCEPT !.t = IF Waiting(st) THEN Resolve(st.t, data) ELSE st.t]

\* OnData without `conn.socket.pause()`.
OnData_NoPause(st, data) ==
    LET st1 == [st EXCEPT !.w.inp = st.w.inp \o data,
                          !.w.n = st.w.n + 1]
    IN  IF \E i \in 1..Len(st.cs) : ~st.cs[i].reader
        THEN [st1 EXCEPT !.w.dataNoReader = TRUE]
        ELSE [st1 EXCEPT !.cs = [i \in 1..Len(st.cs) |-> [st.cs[i] EXCEPT !.reader = FALSE]],
                         !.t = IF Waiting(st) THEN Resolve(st.t, data) ELSE st.t]

\* socket.on('data'): every handler set pauses the socket, resolves its conn's
\* reader and clears it.  conn.reader!.resolve on a null reader is a TypeError
\* thrown out of the event: the process dies.
OnData(st, data) ==
    LET st1 == [st EXCEPT !.so.flowing = FALSE,
                          !.w.inp = st.w.inp \o data,
                          !.w.n = st.w.n + 1]
    IN  IF \E i \in 1..Len(st.cs) : ~st.cs[i].reader
        THEN [st1 EXCEPT !.w.dataNoReader = TRUE]
        ELSE [st1 EXCEPT !.cs = [i \in 1..Len(st.cs) |-> [st.cs[i] EXCEPT !.reader = FALSE]],
                         !.t = IF Waiting(st) THEN Resolve(st.t, data) ELSE st.t]

\* socket.on('end')
OnEnd(st) ==
    [st EXCEPT !.so.ended = TRUE,
               !.cs = [i \in 1..Len(st.cs) |->
                          [st.cs[i] EXCEPT !.ended = TRUE, !.reader = FALSE]],
               !.t = IF Waiting(st) THEN Resolve(st.t, <<>>) ELSE st.t]

\* socket.on('error')
OnError(st) ==
    [st EXCEPT !.so.errored = TRUE,
               !.cs = [i \in 1..Len(st.cs) |->
                          [st.cs[i] EXCEPT !.err = TRUE, !.reader = FALSE]],
               !.t = IF Waiting(st) THEN Raise(st.t, TransportError) ELSE st.t]

Live(s) == sock[s].state = "open" /\ sock[s].handlers > 0 /\ ~sock[s].errored

\* The peer's bytes reach a flowing socket.
SocketData(s) ==
    /\ Quiescent /\ Live(s)
    /\ sock[s].flowing /\ ~sock[s].ended
    /\ wire[s].n < MaxDeliveries
    /\ \E data \in Deliveries :
          LET st == OnData(St(s), data)
          IN  /\ Set(s, st)
              /\ listener' = [listener EXCEPT !.crashed = st.w.dataNoReader]
    /\ UNCHANGED <<fr, br, lim, rq, pf>>

\* The peer's FIN.
SocketEnd(s) ==
    /\ Quiescent /\ Live(s)
    /\ ~sock[s].ended
    /\ Set(s, OnEnd(St(s)))
    /\ UNCHANGED <<listener, fr, br, lim, rq, pf>>

\* A transport error on the socket.
SocketError(s) ==
    /\ Quiescent /\ Live(s)
    /\ Set(s, OnError(St(s)))
    /\ UNCHANGED <<listener, fr, br, lim, rq, pf>>

\* The callback of socket.write without and with an error.  A write in flight
\* when the socket reports an error may still be called back without one.
WriteDone(s) ==
    /\ Quiescent /\ task[s].pc = "awaitWrite"
    /\ task' = [task EXCEPT ![s].pc = "respBody"]
    /\ UNCHANGED <<listener, sock, conn, wire, fr, br, lim, rq, pf>>

WriteFail(s) ==
    /\ Quiescent /\ task[s].pc = "awaitWrite"
    /\ task' = [task EXCEPT ![s] = Raise(task[s], TransportError)]
    /\ UNCHANGED <<listener, sock, conn, wire, fr, br, lim, rq, pf>>

\* listenForClient: soListen, then soAccept adds one more 'connection' listener
\* (and 'error' listener) to the server and awaits its promise.
Listen ==
    /\ ~listener.crashed /\ listener.pc = "listen"
    /\ listener' = [listener EXCEPT !.listening = TRUE,
                                    !.onConnection = listener.onConnection + 1,
                                    !.pc = "accepting"]
    /\ UNCHANGED <<sock, conn, task, wire, fr, br, lim, rq, pf>>

\* The server's 'connection' event: every listener calls resolve(socket) on its
\* own promise; only a pending promise is settled by it, and listenForClient
\* then awaits newConn(socket).
Connection(s) ==
    /\ Quiescent /\ listener.listening
    /\ sock[s].state = "idle"
    /\ \A r \in Sockets : r < s => sock[r].state # "idle"
    /\ sock' = [sock EXCEPT ![s].state = "open"]
    /\ IF listener.pc = "accepting"
       THEN /\ listener' = [listener EXCEPT !.pc = "serving", !.cur = s]
            /\ task' = [task EXCEPT ![s].pc = "start"]
       ELSE UNCHANGED <<listener, task>>
    /\ UNCHANGED <<conn, wire, fr, br, lim, rq, pf>>

\* `await newConn(connSocket)` returns: the loop goes round.  Nothing refers
\* to the destroyed socket, its TCPConn objects and the task's locals any more.
Served ==
    /\ ~listener.crashed
    /\ listener.pc = "serving" /\ task[listener.cur].pc = "done"
    /\ listener' = [listener EXCEPT !.pc = "listen"]
    /\ sock' = [sock EXCEPT ![listener.cur] = [IdleSocket EXCEPT !.state = "destroyed"]]
    /\ conn' = [conn EXCEPT ![listener.cur] = <<>>]
    /\ task' = [task EXCEPT ![listener.cur] = [IdleTask EXCEPT !.pc = "done"]]
    /\ wire' = [wire EXCEPT ![listener.cur] = IdleWire]
    /\ UNCHANGED <<fr, br, lim, rq, pf>>

\* The server's 'error' event while soAccept's promise is pending: the catch
\* block of listenForClient breaks out of the loop.
ServerError ==
    /\ Quiescent /\ listener.pc = "accepting"
    /\ listener' = [listener EXCEPT !.pc = "stopped"]
    /\ UNCHANGED <<sock, conn, task, wire, fr, br, lim, rq, pf>>

InitIdle ==
    /\ fr = [on |-> FALSE]
    /\ br = [on |-> FALSE]
    /\ lim = [on |-> FALSE]
    /\ rq = [on |-> FALSE]
    /\ pf = [on |-> FALSE]

Init == InitServer /\ InitIdle

Next ==
    \/ Listen
    \/ Served
    \/ ServerError
    \/ \E s \in Sockets :
          \/ Connection(s)
          \/ TaskStart(s)
          \/ TaskLoop(s)
          \/ TaskGotHeaderData(s)
          \/ TaskGotBodyData(s)
          \/ TaskDispatch(s)
          \/ TaskRespBody(s)
          \/ TaskWritten(s)
          \/ TaskDrain(s)
          \/ TaskCatch(s)
          \/ TaskFinally(s)
          \/ SocketData(s)
          \/ SocketEnd(s)
          \/ SocketError(s)
          \/ WriteDone(s)
          \/ WriteFail(s)

Spec == Init /\ [][Next]_vars

----------------------------------------------------------------------------
(* Properties of the server                                                *)

RECURSIVE Flat(_)
Flat(bufs) == IF bufs = <<>> THEN <<>> ELSE Head(bufs) \o Flat(Tail(bufs))

\* No end-of-stream, no transport error and no failed write on the connection.
Quiet(s) == ~sock[s].ended /\ ~sock[s].errored /\ task[s].exc.name # "TransportError"

\* The task has nothing left to do with the bytes delivered so far.
AtRest(s) == task[s].pc \in {"awaitRead", "done"}

Head200(n) ==
    <<"H", "T", "T", "P", "/", "1", ".", "1", SP, "2", "0", "0", CR, LF>>
    \o StrServerHeader \o CRLF
    \o StrContentLengthColon \o NumberToString(n) \o CRLF \o CRLF

HelloResponse == Head200(13) \o StrHelloWorld
EchoResponse == Head200(3) \o <<"a", "b", "c">>

\* The byte streams of one request to / over HTTP/1.1, and of that request
\* followed by POST /echo with the body abc.
GetStreams == {ReqGet11, FragA \o FragB}
GetEchoStreams == {g \o ReqEchoA \o BodyBc : g \in GetStreams}

\* C2: on a persistent HTTP/1.1 connection a request to / is answered with 200,
\* Content-Length 13 and the body Hello World!\n and the connection stays open;
\* a following POST /echo with Content-Length 3 and body abc is answered with
\* 200 and exactly abc.
C2_EndToEnd ==
    \A s \in Sockets :
        Quiet(s) /\ AtRest(s) =>
            /\ wire[s].inp \in GetStreams =>
                  Flat(wire[s].out) = HelloResponse /\ sock[s].state = "open"
            /\ wire[s].inp \in GetEchoStreams =>
                  Flat(wire[s].out) = HelloResponse \o EchoResponse /\ sock[s].state = "open"

\* The exchange of C2 when every request arrives in one piece.
C2_WholeDeliveries ==
    \E s \in Sockets :
        /\ Quiet(s) /\ task[s].pc = "awaitRead"
        /\ wire[s].inp = ReqGet11 \o ReqEchoA \o BodyBc
        /\ Flat(wire[s].out) = HelloResponse \o EchoResponse

\* The body reader met end-of-stream with bytes of the declared length missing.
BodyEOF(s) ==
    /\ task[s].ctx \in {"resp", "drain"}
    /\ task[s].reqBody.payloadLength > 0
    /\ conn[s][1].ended
    /\ task[s].exc.name \notin {"none", "TransportError"}

\* C4: end-of-stream while the fixed-length body reader has remaining > 0 fails
\* with the protocol error UnexpectedEOF, carrying status 400, which the
\* connection loop answers with one best-effort error response before closing.
C4_BodyEOFIsProtocolError ==
    \A s \in Sockets :
        BodyEOF(s) =>
            /\ task[s].exc.name = "HTTPError" /\ task[s].exc.code = 400
            /\ task[s].pc = "done" => wire[s].nErrResp = 1

\* C6: after a response to an HTTP/1.0 request the task closes without reading
\* again; after a response to any other version the task is back at awaiting
\* a message, and the socket is destroyed only after an error, an
\* end-of-stream or an HTTP/1.0 exchange.
C6_Persistence ==
    \A s \in Sockets :
        /\ wire[s].lastVersion = StrHTTP10 =>
              task[s].pc \in {"finally", "done"}
        /\ task[s].pc = "done" => sock[s].state = "destroyed"
        /\ sock[s].state = "destroyed" /\ task[s].c > 0
              /\ Quiet(s) /\ task[s].exc.name = "none" =>
              wire[s].lastVersion = StrHTTP10
        /\ wire[s].nResp >= 1 /\ wire[s].lastVersion # StrHTTP10 /\ Quiet(s)
              /\ task[s].exc.name = "none" /\ AtRest(s) =>
              task[s].pc = "awaitRead" /\ sock[s].state = "open"

\* Both cases of C6 on one connection: it was kept open after an HTTP/1.1
\* exchange and then closed after an HTTP/1.0 exchange.
C6_BothVersions ==
    \E s \in Sockets :
        /\ wire[s].nResp = 2 /\ wire[s].lastVersion = StrHTTP10
        /\ Quiet(s) /\ task[s].exc.name = "none"
        /\ sock[s].state = "destroyed"

\* C7: a protocol error (an HTTPError of the framer or the loop, or the body
\* reader's unexpected end-of-stream) leads to exactly one attempt to write an
\* error response, a transport error to none, and a finished task has destroyed
\* its socket.
C7_ErrorPolicy ==
    \A s \in Sockets :
        task[s].pc = "done" =>
            /\ sock[s].state = "destroyed"
            /\ task[s].exc.name \in {"HTTPError", "Error"} => wire[s].nErrResp = 1
            /\ task[s].exc.name \in {"TransportError", "none"} => wire[s].nErrResp = 0

\* C8: every connection the server reports is handed to a task of its own, also
\* while an earlier connection is still open.
C8_EveryConnectionServed ==
    listener.pc # "stopped" =>
        \A s \in Sockets : sock[s].state = "open" => task[s].pc # "idle"

\* C9: soRead is never called while conn.reader is set, and no TCPConn but the
\* one the task reads from ever holds a reader.
C9_OneOutstandingRead ==
    \A s \in Sockets :
        /\ ~wire[s].readAssert
        /\ \A i \in 1..Len(conn[s]) :
              conn[s][i].reader => i = task[s].c /\ task[s].pc = "awaitRead"

\* Reads of every kind on one connection: the header of POST /echo, its body
\* for the response, the header of POST /, and now the drain loop's read of
\* the body the default route ignored.
C9_LaterReads ==
    \E s \in Sockets :
        /\ wire[s].inp = ReqEchoA \o BodyBc \o ReqPostA
        /\ task[s].pc = "awaitRead" /\ task[s].ctx = "drain" /\ conn[s][1].reader

\* C10 as stated: the socket is flowing only while a read is pending, and no
\* 'data' event finds conn.reader null.
C10_FlowingOnlyWhileReading ==
    \A s \in Sockets :
        /\ sock[s].flowing => \E i \in 1..Len(conn[s]) : conn[s][i].reader
        /\ ~wire[s].dataNoReader

\* C10 as amended: until end-of-stream or a transport error has been
\* delivered, the socket is flowing only while a read is pending; a socket
\* without handlers is paused; no 'data' event finds conn.reader null.
C10_Backpressure ==
    \A s \in Sockets :
        /\ sock[s].flowing /\ ~sock[s].ended /\ ~sock[s].errored =>
              conn[s][task[s].c].reader /\ task[s].pc = "awaitRead"
        /\ sock[s].handlers = 0 => ~sock[s].flowing
        /\ ~wire[s].dataNoReader

\* A socket that carries the error path's second handler set after data was
\* delivered to it, paused, with no read pending.
C10_SecondHandlers ==
    \E s \in Sockets :
        /\ sock[s].handlers = 2 /\ wire[s].n >= 1
        /\ ~sock[s].flowing /\ sock[s].state = "open"
        /\ \A i \in 1..2 : ~conn[s][i].reader

\* C11: once the socket has reported a transport error, no soRead and no
\* soWrite of the connection goes on to the socket (resumes it, or hands a
\* buffer to socket.write): each is rejected with the recorded error.
C11_FailsAfterError ==
    \A s \in Sockets : ~wire[s].ioAfterErr

\* The task of s takes the step after a soRead of serveClient's loop that
\* resolved with the empty Buffer of end-of-stream.
EndOfStreamAwaitingMessage(s) ==
    /\ task[s].pc = "gotData" /\ task[s].ctx = "hdr" /\ task[s].data = <<>>
    /\ task'[s] # task[s]

\* C22: while a message is awaited, end-of-stream with an empty buffer ends
\* the task with no error and nothing written; end-of-stream with a non-empty
\* buffer raises HTTPError(400, "Unexpected EOF.").
C22_EndOfStream ==
    [][\A s \in Sockets :
          EndOfStreamAwaitingMessage(s) =>
              IF task[s].buf.length = 0
              THEN /\ task'[s].pc = "finally"
                   /\ task'[s].exc = NoError /\ ~task'[s].errPath
                   /\ wire'[s].out = wire[s].out
                   /\ wire'[s].nErrResp = wire[s].nErrResp
              ELSE /\ task'[s].pc = "catch"
                   /\ task'[s].exc = HTTPError(400, MsgUnexpectedEOF)]_vars

\* One connection closed by its peer before any byte and ended with nothing
\* written, the next closed inside a header block and failed with 400.
C22_CleanThenUnexpected ==
    /\ task[1].pc = "done" /\ task[1].exc = NoError
    /\ wire[1].inp = <<>> /\ wire[1].out = <<>>
    /\ task[2].pc = "catch" /\ task[2].exc = HTTPError(400, MsgUnexpectedEOF)
    /\ task[2].buf.length > 0

\* bytes ends with a header block's CRLF CRLF and n bytes after it.
EndsWithBody(bytes, n) ==
    LET h == Len(bytes) - n
    IN  h >= Len(CRLFCRLF) /\ SubSeq(bytes, h - Len(CRLFCRLF) + 1, h) = CRLFCRLF

\* The task of s leaves the drain loop for the top of serveClient's loop.
DrainDone(s) ==
    /\ task[s].pc = "drain" \/ (task[s].pc = "gotData" /\ task[s].ctx = "drain")
    /\ task'[s].pc = "loop"

----------------------------------------------------------------------------
(* The framing loop alone: one connection is fed one header block, cut     *)
(* into deliveries at every possible place, and runs serveClient's loop    *)
(* until a request is parsed or an exception is thrown.                    *)

ReqEchoHeader == SubSeq(ReqEchoA, 1, Len(ReqEchoA) - 1)

HeaderBlocks == {ReqGet11, ReqGet10, ReqEchoHeader}

\* A connection whose task has called soInit and is at the top of the loop.
FreshSt ==
    StepStart([t  |-> [IdleTask EXCEPT !.pc = "start"],
               cs |-> <<>>,
               so |-> [IdleSocket EXCEPT !.state = "open"],
               w  |-> IdleWire])

InitFrag ==
    /\ InitServer
    /\ \E block \in HeaderBlocks : fr = [on |-> TRUE, block |-> block, pos |-> 0, st |-> FreshSt]
    /\ br = [on |-> FALSE]
    /\ lim = [on |-> FALSE]
    /\ rq = [on |-> FALSE]
    /\ pf = [on |-> FALSE]

\* serveClient's loop between two awaits.
FrStep ==
    /\ fr.st.t.pc \in {"loop", "gotData"}
    /\ fr' = [fr EXCEPT !.st = IF fr.st.t.pc = "loop" THEN StepLoop(fr.st)
                                ELSE StepGotHeaderData(fr.st)]
    /\ UNCHANGED <<srvVars, br, lim, rq, pf>>

\* The next k bytes of the block arrive in one 'data' event.
FrDeliver ==
    /\ fr.st.t.pc = "awaitRead"
    /\ \E k \in 1..(Len(fr.block) - fr.pos) :
          fr' = [fr EXCEPT !.pos = fr.pos + k,
                           !.st = OnData(fr.st, SubSeq(fr.block, fr.pos + 1, fr.pos + k))]
    /\ UNCHANGED <<srvVars, br, lim, rq, pf>>

NextFrag == FrStep \/ FrDeliver

SpecFrag == InitFrag /\ [][NextFrag]_vars

\* C1: however a valid header block is cut into deliveries, once it has
\* arrived whole the loop has parsed the request that the block parses to when
\* it arrives in one delivery.
C1_FragmentationIndependent ==
    fr.pos = Len(fr.block) /\ fr.st.t.pc \in {"dispatch", "catch", "awaitRead"} =>
        /\ fr.st.t.pc = "dispatch"
        /\ fr.st.t.msg = getHTTPHeader(pushBuf(EmptyBuf, fr.block)).msg

----------------------------------------------------------------------------
(* The fixed-length body reader alone: a request with Content-Length N has *)
(* been framed with the first k bytes that follow its header block already *)
(* in the buffer; the rest arrives cut at every possible place, and read() *)
(* is called again and again.                                              *)

\* The largest declared body length.
MaxBody == 3
\* How many more read() calls are made once the reader has nothing left.
MaxExtraReads == 2

\* What follows the header block on the wire: N body bytes, then the start of
\* the next request.
StreamOf(N) == [i \in 1..N |-> Digits[(i % 10) + 1]] \o <<"G", "E">>

\* POST /echo HTTP/1.1 with Content-Length: N
HeaderFor(N) == SubSeq(ReqEchoHeader, 1, 37) \o NumberToString(N) \o CRLFCRLF

InitBody ==
    /\ InitServer
    /\ \E N \in 0..MaxBody :
          br = [on |-> TRUE, N |-> N, pos |-> -1, st |-> FreshSt,
                yielded |-> <<>>, last |-> <<>>, extra |-> 0, lateConnRead |-> FALSE]
    /\ fr = [on |-> FALSE]
    /\ lim = [on |-> FALSE]
    /\ rq = [on |-> FALSE]
    /\ pf = [on |-> FALSE]

\* serveClient's loop between two awaits.
BrStep ==
    /\ br.st.t.pc \in {"loop", "gotData"} /\ br.yielded = <<>>
    /\ br.st.t.ctx \in {"none", "hdr"}
    /\ br' = [br EXCEPT !.st = IF br.st.t.pc = "loop" THEN StepLoop(br.st)
                                ELSE StepGotHeaderData(br.st)]
    /\ UNCHANGED <<srvVars, fr, lim, rq, pf>>

\* The header block arrives in one delivery together with the k bytes after it.
BrHeader ==
    /\ br.st.t.pc = "awaitRead" /\ br.pos = -1
    /\ \E k \in 0..(br.N + 2) :
          br' = [br EXCEPT !.pos = k,
                           !.st = OnData(br.st, HeaderFor(br.N) \o SubSeq(StreamOf(br.N), 1, k))]
    /\ UNCHANGED <<srvVars, fr, lim, rq, pf>>

\* readFromReq chooses the reader; the task is left where read() is called.
BrDispatch ==
    /\ br.st.t.pc = "dispatch"
    /\ br' = [br EXCEPT !.st.t.reqBody = readFromReq(br.st.t.msg).val,
                        !.st.t.pc = "drain"]
    /\ UNCHANGED <<srvVars, fr, lim, rq, pf>>

\* One call of read() up to its return or its await of soRead.
BrRead ==
    /\ br.st.t.pc = "drain"
    /\ br.extra < MaxExtraReads
    /\ LET reader == br.st.t.reqBody
           buf    == br.st.t.buf
           r      == ReadNow(reader, buf)
       IN  IF ReadNeedsConn(reader, buf)
           THEN br' = [br EXCEPT !.st = soRead(br.st, "drain"),
                                 !.lateConnRead = Len(br.yielded) >= br.N]
           ELSE br' = [br EXCEPT !.st.t.buf = r.buf,
                                 !.st.t.reqBody = r.reader,
                                 !.yielded = br.yielded \o r.data,
                                 !.last = r.data,
                                 !.extra = IF reader.payloadLength = 0
                                           THEN br.extra + 1 ELSE br.extra]
    /\ UNCHANGED <<srvVars, fr, lim, rq, pf>>

\* The next j bytes arrive while read() awaits soRead; read() goes on to return.
BrDeliver ==
    /\ br.st.t.pc = "awaitRead" /\ br.st.t.ctx = "drain"
    /\ \E j \in 1..(br.N + 2 - br.pos) :
          LET chunk == SubSeq(StreamOf(br.N), br.pos + 1, br.pos + j)
              r     == ReadConsume(br.st.t.reqBody, pushBuf(br.st.t.buf, chunk))
          IN  br' = [br EXCEPT !.pos = br.pos + j,
                               !.st = StepGotBodyData(OnData(br.st, chunk)),
                               !.yielded = br.yielded \o r.data,
                               !.last = r.data]
    /\ UNCHANGED <<srvVars, fr, lim, rq, pf>>

\* The peer closes while read() awaits soRead.
BrEnd ==
    /\ br.st.t.pc = "awaitRead" /\ br.st.t.ctx = "drain"
    /\ br' = [br EXCEPT !.st = StepGotBodyData(OnEnd(br.st))]
    /\ UNCHANGED <<srvVars, fr, lim, rq, pf>>

NextBody == BrStep \/ BrHeader \/ BrDispatch \/ BrRead \/ BrDeliver \/ BrEnd

SpecBody == InitBody /\ [][NextBody]_vars

\* C3: the chunks read() returns are, in order, the first N bytes after the
\* header block and never more; what was delivered beyond them stays in the
\* buffer; once N bytes were returned read() returns the empty buffer without
\* calling soRead.
C3_ExactlyNBytes ==
    LET stream == StreamOf(br.N)
        got    == Len(br.yielded)
    IN  /\ got <= br.N
        /\ br.yielded = SubSeq(stream, 1, got)
        /\ br.st.t.pc \in {"drain", "awaitRead"} /\ br.st.t.ctx = "drain" =>
              /\ br.st.t.reqBody.payloadLength = br.N - got
              /\ Content(br.st.t.buf) = SubSeq(stream, got + 1, br.pos)
        /\ ~br.lateConnRead
        /\ br.extra > 0 => got = br.N /\ br.last = <<>>

\* A body of 3 bytes, one of them buffered with the header, the others and the
\* start of the next request delivered later in two pieces, read to the end
\* and read again.
C3_SplitBodyRead ==
    /\ br.N = 3 /\ br.st.w.n = 3
    /\ br.yielded = <<"1", "2", "3">>
    /\ br.extra = MaxExtraReads
    /\ Content(br.st.t.buf) = <<"G", "E">>

----------------------------------------------------------------------------
(* Header extraction around maxHeaderLength: deliveries of filler bytes,   *)
(* with or without a terminator, accumulate in the buffer of one           *)
(* connection while serveClient's loop calls getHTTPHeader after each.     *)

\* How many deliveries one connection receives.
MaxLimDeliveries == 3

\* The sizes of the deliveries.
ChunkSizes == {1, maxHeaderLength \div 2 - 1, maxHeaderLength \div 2}

ChunkKinds == {"fill", "part", "term", "req"}

Filler(n) == [i \in 1..n |-> "a"]

\* GET / HTTP/1.1 with one header field, not yet terminated
ReqLongPrefix == <<"G", "E", "T", SP, "/", SP, "H", "T", "T", "P", "/", "1", ".", "1", CR, LF, "X", ":", SP>>

\* A delivery of n bytes: filler only, filler ending in the first three bytes
\* of the terminator, filler ending in the terminator, or a whole request with
\* one long header field.
Chunk(n, kind) ==
    CASE kind = "fill" -> Filler(n)
      [] kind = "part" -> Filler(n - 3) \o <<CR, LF, CR>>
      [] kind = "term" -> Filler(n - 4) \o CRLFCRLF
      [] kind = "req"  -> ReqLongPrefix \o Filler(n - Len(ReqLongPrefix) - 4) \o CRLFCRLF

InitLimit ==
    /\ InitServer
    /\ lim = [on |-> TRUE, st |-> FreshSt, before |-> EmptyBuf, checked |-> FALSE]
    /\ fr = [on |-> FALSE]
    /\ br = [on |-> FALSE]
    /\ rq = [on |-> FALSE]
    /\ pf = [on |-> FALSE]

\* serveClient calls getHTTPHeader on the buffer.
LimExtract ==
    /\ lim.st.t.pc = "loop"
    /\ lim' = [lim EXCEPT !.st = StepLoop(lim.st), !.before = lim.st.t.buf,
                          !.checked = TRUE]
    /\ UNCHANGED <<srvVars, fr, br, rq, pf>>

\* serveClient pushes what soRead returned.
LimPush ==
    /\ lim.st.t.pc = "gotData"
    /\ lim' = [lim EXCEPT !.st = StepGotHeaderData(lim.st), !.checked = FALSE]
    /\ UNCHANGED <<srvVars, fr, br, rq, pf>>

\* The next 'data' event.
LimDeliver ==
    /\ lim.st.t.pc = "awaitRead"
    /\ lim.st.w.n < MaxLimDeliveries
    /\ \E n \in ChunkSizes, kind \in ChunkKinds :
          /\ kind # "fill" => n > Len(ReqLongPrefix) + 4
          /\ lim' = [lim EXCEPT !.st = OnData(lim.st, Chunk(n, kind)), !.checked = FALSE]
    /\ UNCHANGED <<srvVars, fr, br, rq, pf>>

NextLimit == LimExtract \/ LimPush \/ LimDeliver

SpecLimit == InitLimit /\ [][NextLimit]_vars

----------------------------------------------------------------------------
(* One request on a new connection: a request line, up to two header       *)
(* lines and the bytes of a body arrive in one delivery, and the task runs *)
(* until the response of the handler or of the catch block of newConn is   *)
(* written, or until it has to await more bytes.                           *)

StrPOST == <<"P", "O", "S", "T">>
StrRoot == <<"/">>
StrHTTP11 == <<"H", "T", "T", "P", "/", "1", ".", "1">>

\* The header lines a request is made of, as name and value.
LineLength3 == [name |-> StrContentLength, value |-> <<"3">>]
LineLengthLower == [name |-> <<"c", "o", "n", "t", "e", "n", "t", "-", "l", "e", "n", "g", "t", "h">>, value |-> <<"3">>]
LineLengthNegative == [name |-> StrContentLength, value |-> <<"-", "5">>]
LineLengthFraction == [name |-> StrContentLength, value |-> <<"1", ".", "5">>]
LineLengthWord == [name |-> StrContentLength, value |-> <<"a", "b", "c">>]
LineChunked == [name |-> StrTransferEncoding, value |-> StrChunked]
LineHost == [name |-> <<"H", "o", "s", "t">>, value |-> <<"x">>]
LineXContentLength == [name |-> <<"X", "-", "C", "o", "n", "t", "e", "n", "t", "-", "L", "e", "n", "g", "t", "h">>, value |-> <<"9">>]
LineXNote == [name |-> <<"X", "-", "N", "o", "t", "e">>, value |-> <<"c", "o", "n", "t", "e", "n", "t", "-", "l", "e", "n", "g", "t", "h">>]

HeaderLineSet ==
    {LineLength3, LineLengthLower, LineLengthNegative, LineLengthFraction, LineLengthWord,
     LineChunked, LineHost, LineXContentLength, LineXNote}

\* How many header lines a request carries at most.
MaxHeaderLines == 2

HeaderLists == UNION {[1..n -> HeaderLineSet] : n \in 0..MaxHeaderLines}

LineBytes(line) == line.name \o <<":", SP>> \o line.value

RECURSIVE LinesBytes(_)
LinesBytes(lines) ==
    IF lines = <<>> THEN <<>> ELSE LineBytes(Head(lines)) \o CRLF \o LinesBytes(Tail(lines))

\* The body "hello" in one chunk of 5 bytes and the zero chunk, and a body of
\* three bytes.
ChunkedHello == <<"5", CR, LF, "h", "e", "l", "l", "o", CR, LF, "0", CR, LF, CR, LF>>
BodyAbc == <<"a", "b", "c">>

\* The line's name is the field name, letter case aside.
Names(line, field) == ToLower(line.name) = ToLower(field)

HasLine(lines, field) == \E i \in 1..Len(lines) : Names(lines[i], field)

\* The bytes that follow the header block of a request with these lines.
BodyOf(lines) ==
    IF \E i \in 1..Len(lines) : lines[i] = LineChunked THEN ChunkedHello ELSE BodyAbc

RequestBytes(method, uri, lines) ==
    method \o <<SP>> \o uri \o <<SP>> \o StrHTTP11 \o CRLF \o LinesBytes(lines) \o CRLF
    \o BodyOf(lines)

InitReq ==
    /\ InitServer
    /\ \E method \in {StrGET, StrPOST}, uri \in {StrRoot, StrEcho}, lines \in HeaderLists :
          rq = [on |-> TRUE, method |-> method, uri |-> uri, lines |-> lines,
                st |-> FreshSt, chosen |-> FALSE]
    /\ fr = [on |-> FALSE]
    /\ br = [on |-> FALSE]
    /\ lim = [on |-> FALSE]
    /\ pf = [on |-> FALSE]

\* serveClient's loop between two awaits.
RqStep ==
    /\ rq.st.t.pc \in {"loop", "gotData"}
    /\ rq' = [rq EXCEPT !.st = IF rq.st.t.pc = "loop" THEN StepLoop(rq.st)
                                ELSE StepGotHeaderData(rq.st)]
    /\ UNCHANGED <<srvVars, fr, br, lim, pf>>

\* The request arrives in one 'data' event.
RqDeliver ==
    /\ rq.st.t.pc = "awaitRead" /\ rq.st.w.n = 0
    /\ rq' = [rq EXCEPT !.st = OnData(rq.st, RequestBytes(rq.method, rq.uri, rq.lines))]
    /\ UNCHANGED <<srvVars, fr, br, lim, pf>>

\* readFromReq, handleReq and the write of the response header.
RqDispatch ==
    /\ rq.st.t.pc = "dispatch"
    /\ rq' = [rq EXCEPT !.st = StepDispatch(rq.st), !.chosen = TRUE]
    /\ UNCHANGED <<srvVars, fr, br, lim, pf>>

\* newConn's catch block up to the write of the error response's header.
RqCatch ==
    /\ rq.st.t.pc = "catch"
    /\ rq' = [rq EXCEPT !.st = StepCatch(rq.st)]
    /\ UNCHANGED <<srvVars, fr, br, lim, pf>>

\* socket.write calls back without an error.
RqWriteDone ==
    /\ rq.st.t.pc = "awaitWrite"
    /\ rq' = [rq EXCEPT !.st.t.pc = "respBody"]
    /\ UNCHANGED <<srvVars, fr, br, lim, pf>>

\* writeHTTPResp's body loop, for a body whose length is a whole number.
RqRespBody ==
    /\ rq.st.t.pc = "respBody"
    /\ RespReader(rq.st.t).frac = <<>>
    /\ rq' = [rq EXCEPT !.st = StepRespBody(rq.st)]
    /\ UNCHANGED <<srvVars, fr, br, lim, pf>>

NextReq == RqStep \/ RqDeliver \/ RqDispatch \/ RqCatch \/ RqWriteDone \/ RqRespBody

SpecReq == InitReq /\ [][NextReq]_vars

\* readFromReq and handleReq have just run.
Chosen ==
    /\ rq.on /\ rq.chosen /\ ~rq.st.t.errPath
    /\ \/ rq.st.t.pc = "catch"
       \/ rq.st.t.pc = "awaitWrite" /\ Len(rq.st.w.out) = 1

\* The request failed with this HTTPError in readFromReq: the handler was not
\* called, nothing was handed to socket.write and every byte after the header
\* block is still in the buffer.
FailedWith(code, message) ==
    /\ rq.st.t.pc = "catch"
    /\ rq.st.t.exc = HTTPError(code, message)
    /\ rq.st.w.out = <<>>
    /\ Content(rq.st.t.buf) = BodyOf(rq.lines)

\* The value is a non-negative decimal integer.
IsLengthValue(value) == value # <<>> /\ \A i \in 1..Len(value) : value[i] \in DigitSet

\* C12: a request with one Content-Length line whose value is no non-negative
\* decimal integer fails with HTTPError 400 'bad Content-Length.' when its
\* reader is chosen, with no body byte taken from the buffer.
C12_BadContentLength ==
    \A line \in HeaderLineSet :
        (/\ Chosen
         /\ rq.lines = <<line>>
         /\ Names(line, StrContentLength)
         /\ ~IsLengthValue(line.value))
        => FailedWith(400, MsgBadContentLength)

\* C13: a request with a method other than GET and HEAD, without a
\* Content-Length line and without Transfer-Encoding: chunked, fails with an
\* HTTPError of status 400 and is not dispatched.
C13_NoFramingIs400 ==
    (/\ Chosen
     /\ rq.method \notin {StrGET, StrHEAD}
     /\ ~HasLine(rq.lines, StrContentLength)
     /\ ~HasLine(rq.lines, StrTransferEncoding)
     /\ \A i \in 1..Len(rq.lines) : rq.lines[i] = LineHost)
    => /\ rq.st.t.pc = "catch"
       /\ rq.st.t.exc.name = "HTTPError" /\ rq.st.t.exc.code = 400
       /\ rq.st.w.out = <<>>

\* C14: a request with a method other than GET and HEAD that declares
\* Transfer-Encoding: chunked is given a body reader and dispatched to the
\* handler.
C14_ChunkedDispatched ==
    (/\ Chosen
     /\ rq.method \notin {StrGET, StrHEAD}
     /\ rq.lines = <<LineChunked>>)
    => /\ rq.st.t.pc = "awaitWrite"
       /\ rq.st.t.exc = NoError
       /\ rq.st.t.res.code = 200
       /\ rq.st.t.reqBody.kind # "none"

\* The header lines of a request whose names are a framing field's name.
RECURSIVE FramingLines(_)
FramingLines(lines) ==
    IF lines = <<>> THEN <<>>
    ELSE IF Names(Head(lines), StrContentLength) \/ Names(Head(lines), StrTransferEncoding)
    THEN <<LineBytes(Head(lines))>> \o FramingLines(Tail(lines))
    ELSE FramingLines(Tail(lines))

\* C15: the reader chosen for a request, or the exception thrown instead, is
\* the one chosen for the request without the lines whose names are neither
\* Content-Length nor Transfer-Encoding.
C15_ExactNameLookup ==
    Chosen =>
        LET alone == readFromReq([rq.st.t.msg EXCEPT !.headers = FramingLines(rq.lines)])
        IN  IF alone.ok
            THEN rq.st.t.exc = NoError /\ rq.st.t.reqBody = alone.val
            ELSE rq.st.t.exc = alone.exc

\* HTTP/<digit>.<digit>
IsVersion(v) ==
    /\ Len(v) = 8
    /\ SubSeq(v, 1, 5) = <<"H", "T", "T", "P", "/">>
    /\ v[6] \in DigitSet /\ v[7] = "." /\ v[8] \in DigitSet

\* The header lines of a written header block that are Content-Length fields.
IsContentLengthLine(line) ==
    /\ Len(line) > Len(StrContentLength)
    /\ ToLower(SubSeq(line, 1, Len(StrContentLength))) = ToLower(StrContentLength)
    /\ line[Len(StrContentLength) + 1] = ":"

ContentLengthLines(header) == SelectSeq(Tail(splitLines(header)), IsContentLengthLine)

\* C17: the header block of every response handed to socket.write has exactly
\* one Content-Length line, its value is a non-negative decimal integer, and
\* when the response is written to the end that value is the number of body
\* bytes written after the header block.
C17_ContentLengthInjected ==
    rq.on /\ rq.st.w.out # <<>> =>
        LET found == ContentLengthLines(rq.st.w.out[1])
            value == SubSeq(found[1], Len(StrContentLengthColon) + 1, Len(found[1]))
        IN  /\ Len(found) = 1
            /\ SubSeq(found[1], 1, Len(StrContentLengthColon)) = StrContentLengthColon
            /\ IsLengthValue(value)
            /\ rq.st.t.pc = "written" =>
                  DecimalValue(value) = Len(Flat(Tail(rq.st.w.out)))

\* A handler response and an error response written to the end with the
\* declared number of body bytes: the echo of a three-byte body.
C17_EchoWritten ==
    /\ rq.on /\ rq.uri = StrEcho /\ rq.lines = <<LineLength3>>
    /\ rq.st.t.pc = "written"
    /\ Flat(Tail(rq.st.w.out)) = BodyAbc

\* The status line of a written header block.
StatusLine(header) == splitLines(header)[1]

\* C18: every response handed to socket.write begins with the status line
\* HTTP/<digit>.<digit>, one space, the status code; the header block is that
\* line and the header lines, each ended by CRLF, and an empty line; the body
\* bytes follow in later writes.
C18_ResponseFormat ==
    rq.on /\ rq.st.w.out # <<>> =>
        LET header == rq.st.w.out[1]
            status == StatusLine(header)
            code   == SubSeq(status, 10, Len(status))
        IN  /\ Len(status) > 9
            /\ IsVersion(SubSeq(status, 1, 8))
            /\ status[9] = SP
            /\ IsLengthValue(code)
            /\ DecimalValue(code) = rq.st.t.res.code
            /\ Subarray(header, -4, Len(header)) = CRLFCRLF
            /\ IndexOf(header, CRLFCRLF, 0) = Len(header) - 4

----------------------------------------------------------------------------
(* parseRequestLine applied to lines made of up to four tokens with one    *)
(* space between them.                                                     *)

\* The tokens: a method, a target, versions with a dot, with another
\* separator and with none, and the empty token.
TokenSet == {StrGET, StrRoot, StrHTTP11, <<"H", "T", "T", "P", "/", "1", "x", "1">>, <<"H", "T", "T", "P", "/", "1", "1">>, <<>>}

\* How many tokens a request line has at most.
MaxTokens == 4

TokenLists == UNION {[1..n -> TokenSet] : n \in 1..MaxTokens}

RECURSIVE JoinTokens(_)
JoinTokens(tokens) ==
    IF Len(tokens) = 1 THEN tokens[1]
    ELSE tokens[1] \o <<SP>> \o JoinTokens(Tail(tokens))

InitLine ==
    /\ InitServer
    /\ \E tokens \in TokenLists :
          pf = [on |-> TRUE, tokens |-> tokens, done |-> FALSE, res |-> Throw(NoError)]
    /\ fr = [on |-> FALSE]
    /\ br = [on |-> FALSE]
    /\ lim = [on |-> FALSE]
    /\ rq = [on |-> FALSE]

\* parseHTTPReq passes the first line to parseRequestLine.
LineParse ==
    /\ ~pf.done
    /\ pf' = [pf EXCEPT !.done = TRUE, !.res = parseRequestLine(JoinTokens(pf.tokens))]
    /\ UNCHANGED <<srvVars, fr, br, lim, rq>>

NextLine == LineParse

SpecLine == InitLine /\ [][NextLine]_vars

\* C16: a line is accepted exactly when it is two tokens and a version
\* HTTP/<digit>.<digit>, one space between them, and then parses to these
\* three; every other line fails with HTTPError 400 'bad request line.'.
C16_RequestLineGrammar ==
    pf.on /\ pf.done =>
        IF /\ Len(pf.tokens) = 3
           /\ pf.tokens[1] # <<>> /\ pf.tokens[2] # <<>>
           /\ IsVersion(pf.tokens[3])
        THEN /\ pf.res.ok
             /\ pf.res.val.method = pf.tokens[1]
             /\ pf.res.val.uri = pf.tokens[2]
             /\ pf.res.val.version = pf.tokens[3]
        ELSE /\ ~pf.res.ok
             /\ pf.res.exc = HTTPError(400, MsgBadRequestLine)

\* C20: when the header block is found, what is left in the buffer is exactly
\* the bytes that followed its CRLF CRLF, in order, and the first body byte
\* the echo handler's reader yields is the first of them.
C20_ExtractionExact ==
    rq.on =>
        /\ rq.st.t.pc = "dispatch" =>
              /\ rq.st.t.buf.length = Len(BodyOf(rq.lines))
              /\ Content(rq.st.t.buf) = BodyOf(rq.lines)
        /\ (rq.uri = StrEcho /\ ~rq.st.t.errPath /\ Len(rq.st.w.out) > 1) =>
              Head(Flat(Tail(rq.st.w.out))) = Head(BodyOf(rq.lines))

\* A header block whose own terminator is followed by a body that ends with
\* CRLF CRLF as well: the whole chunked body is left.
C20_BodyLeftWhole ==
    /\ rq.on /\ rq.st.t.pc = "dispatch"
    /\ rq.lines = <<LineChunked>>
    /\ Content(rq.st.t.buf) = ChunkedHello

----------------------------------------------------------------------------
(* The DynBuf alone: A is pushed onto the empty buffer, B is pushed, and   *)
(* len(A) bytes are popped.                                                *)

\* The longest A and the longest B.
MaxBytes == 3

ByteSeqs == UNION {[1..n -> {"a", "b"}] : n \in 0..MaxBytes}

InitBuf ==
    /\ InitServer
    /\ \E A \in ByteSeqs, B \in ByteSeqs :
          pf = [on |-> TRUE, A |-> A, B |-> B, stage |-> "empty", buf |-> EmptyBuf,
                grew |-> FALSE]
    /\ fr = [on |-> FALSE]
    /\ br = [on |-> FALSE]
    /\ lim = [on |-> FALSE]
    /\ rq = [on |-> FALSE]

BufPushA ==
    /\ pf.stage = "empty"
    /\ pf' = [pf EXCEPT !.buf = pushBuf(pf.buf, pf.A), !.stage = "A"]
    /\ UNCHANGED <<srvVars, fr, br, lim, rq>>

\* grew: this push had bytes before it and replaced the storage.
BufPushB ==
    /\ pf.stage = "A"
    /\ LET buf == pushBuf(pf.buf, pf.B)
       IN  pf' = [pf EXCEPT !.buf = buf, !.stage = "AB",
                            !.grew = pf.buf.length > 0 /\ Len(buf.data) # Len(pf.buf.data)]
    /\ UNCHANGED <<srvVars, fr, br, lim, rq>>

BufPop ==
    /\ pf.stage = "AB"
    /\ pf' = [pf EXCEPT !.buf = popBuf(pf.buf, Len(pf.A)), !.stage = "B"]
    /\ UNCHANGED <<srvVars, fr, br, lim, rq>>

NextBuf == BufPushA \/ BufPushB \/ BufPop

SpecBuf == InitBuf /\ [][NextBuf]_vars

\* C19: after pushBuf(A), pushBuf(B) and popBuf(len(A)) on the empty buffer the
\* logical length is len(B) and the first len(B) bytes are B.
C19_PushPushPop ==
    pf.on /\ pf.stage = "B" =>
        /\ pf.buf.length = Len(pf.B)
        /\ Subarray(pf.buf.data, 0, Len(pf.B)) = pf.B

\* The round trip for an A of two bytes and a B of three whose push replaced
\* the storage.
C19_AfterGrowth ==
    /\ pf.on /\ pf.stage = "B" /\ pf.grew
    /\ pf.A = <<"a", "b">> /\ pf.B = <<"b", "a", "b">>
    /\ Content(pf.buf) = pf.B

\* C23: pushBuf leaves the bytes buffered before it unchanged: after the push
\* of B onto the buffer holding A the logical length is len(A) + len(B),
\* positions [0, len(A)) hold A and positions [len(A), len(A) + len(B)) hold
\* B, also when the push replaced the storage.
C23_PushKeepsOldBytes ==
    pf.on /\ pf.stage = "AB" =>
        /\ pf.buf.length = Len(pf.A) + Len(pf.B)
        /\ Subarray(pf.buf.data, 0, Len(pf.A)) = pf.A
        /\ Subarray(pf.buf.data, Len(pf.A), Len(pf.A) + Len(pf.B)) = pf.B

----------------------------------------------------------------------------
(* The error response and the responses before it                          *)

\* bytes is a sequence of whole responses: each a header block and as many
\* bytes after it as its Content-Length line says.
RECURSIVE WholeResponses(_)
WholeResponses(bytes) ==
    \/ bytes = <<>>
    \/ LET index == IndexOf(bytes, CRLFCRLF, 0)
           found == ContentLengthLines(SubSeq(bytes, 1, index + 4))
           value == SubSeq(found[1], Len(StrContentLengthColon) + 1, Len(found[1]))
           end   == index + 4 + DecimalValue(value)
       IN  /\ index >= 0
           /\ Len(found) = 1 /\ IsLengthValue(value)
           /\ end <= Len(bytes)
           /\ WholeResponses(SubSeq(bytes, end + 1, Len(bytes)))

\* The task of s is inside writeHTTPResp for a handler's response, after the
\* write of the header block.
InResponse(s) ==
    /\ ~task[s].errPath
    /\ \/ task[s].pc \in {"awaitWrite", "respBody"}
       \/ task[s].pc \in {"awaitRead", "gotData"} /\ task[s].ctx = "resp"

\* C24: no HTTPError is raised between the header write and the last body
\* write of writeHTTPResp, and when newConn's catch block writes the error
\* response everything written on the connection before is a sequence of
\* whole responses.
C24_NoErrorInsideResponse ==
    [][\A s \in Sockets :
          /\ (InResponse(s) /\ task'[s].pc = "catch") => task'[s].exc.name # "HTTPError"
          /\ wire'[s].nErrResp > wire[s].nErrResp =>
                WholeResponses(Flat(wire[s].out))]_vars

\* An error response written behind a whole response: the 400 for the block
\* pipelined behind GET / that is no request.
C24_ErrorAfterWholeResponse ==
    \E s \in Sockets :
        /\ wire[s].inp = ReqGetJunk
        /\ wire[s].nResp = 1 /\ wire[s].nErrResp = 1
        /\ task[s].errPath /\ task[s].exc.name = "HTTPError"
        /\ Len(wire[s].out) = 3
        /\ Flat(SubSeq(wire[s].out, 1, 2)) = HelloResponse

====
